---- MODULE Spec2Model ----
(***************************************************************************)
(* The server side of the QUIC crypto handshake: CryptoSetup               *)
(* (HandleCryptoStream, handleMessage, handleCHLO, handleInchoateCHLO,     *)
(* Open, Seal, DiversificationNonce), run by two goroutines: the crypto    *)
(* stream reader and the session's packet processor.                       *)
(***************************************************************************)
EXTENDS Integers, Sequences, FiniteSets, TLC

\* How many handshake messages the peer sends on the crypto stream.
MaxMsgs == 2

\* protocol.ClientHelloMinimumSize
ClientHelloMinimumSize == 1024

\* DiversificationNonce is only sent from this version on.
DiversificationVersion == 33

Versions == {32, 33}

VARIABLES
    version,                      \* h.version
    secureAEAD,                   \* h.secureAEAD
    forwardSecureAEAD,            \* h.forwardSecureAEAD
    receivedForwardSecurePacket,  \* h.receivedForwardSecurePacket
    receivedSecurePacket,         \* h.receivedSecurePacket
    aeadChanged,                  \* values received from the h.aeadChanged channel
    mutex,                        \* h.mutex: [w: writer holds it, r: number of readers]
    cryptoStream,                 \* what was written to h.cryptoStream, in order
    nread,                        \* messages parsed from h.cryptoStream so far
    msg,                          \* the handshake message being handled
    hpc,                          \* position of the goroutine in HandleCryptoStream
    err,                          \* what HandleCryptoStream returned
    spc,                          \* position of the session goroutine
    pkt,                          \* the packet the session is opening
    sres,                         \* what the session's last finished call returned
    opened                        \* highest tier an Open has reported so far

\* The source-address-token source (stkSource) and its clock.
VARIABLES
    now,                          \* time.Now().Unix()
    ticks,                        \* how often the clock has been advanced
    token,                        \* the token NewToken returned last
    issued,                       \* for which address and when it was issued
    stkResult                     \* the last VerifyToken call since then and its result

cryptoSetupVars ==
    <<version, secureAEAD, forwardSecureAEAD, receivedForwardSecurePacket,
      receivedSecurePacket, aeadChanged, mutex, cryptoStream, nread, msg,
      hpc, err, spc, pkt, sres, opened>>

\* Two parties, alice and bob, each with an AEAD context.
VARIABLES
    contexts,                     \* the context of each party
    sealedPkt,                    \* the packet sealed last, and by whom
    openedPkt                     \* the last Open of that packet and its result

\* The Server: its map of sessions, the goroutines that read packets from its
\* sockets and call handlePacket, and the sessions it has created.
VARIABLES
    sessions,                     \* Server.sessions
    listeners,                    \* per socket: where its goroutine is, and its locals
    created,                      \* the sessions newSession has returned, in order
    nPackets,                     \* packets read from the sockets so far
    closedIds,                    \* the ids closeCallback has been called with
    delivered                     \* the calls of session.handlePacket so far

stkVars == <<now, ticks, token, issued, stkResult>>

aeadVars == <<contexts, sealedPkt, openedPkt>>

serverVars == <<sessions, listeners, created, nPackets, closedIds, delivered>>

vars == <<cryptoSetupVars, stkVars, aeadVars, serverVars>>

\* What no step of a CryptoSetup changes: its version, and the other components.
untouched == <<version, stkVars, aeadVars, serverVars>>

cryptoVars == <<secureAEAD, forwardSecureAEAD, aeadChanged, cryptoStream, nread,
                msg, hpc, err>>
sessionVars == <<receivedForwardSecurePacket, receivedSecurePacket, spc, pkt,
                 sres, opened>>

----------------------------------------------------------------------------
(* Handshake messages, as far as the handshake looks at them. *)

Tags == {"CHLO", "SHLO"}
Messages ==
    [tag  : Tags,
     sni  : {"absent", "empty", "example.com"},
     scid : {"absent", "other", "scfg.ID"},
     stk  : {"absent", "invalid", "valid"},
     size : {ClientHelloMinimumSize - 1, ClientHelloMinimumSize},
     pubs : {"malformed", "ok"}]

NoMessage == [tag |-> "none", sni |-> "absent", scid |-> "absent",
              stk |-> "absent", size |-> 0, pubs |-> "malformed"]

\* stkSource.VerifyToken(h.ip, cryptoData[TagSTK]): nil exactly for a token this
\* source issued for h.ip that has not expired.
VerifyToken(m) == IF m.stk = "valid" THEN "nil" ELSE "stk-error"

\* A faulty variant: a CHLO is full as soon as it carries any SCID.
isInchoateCHLO_AnySCID(m) == m.scid = "absent"

isInchoateCHLO(m) ==
    IF m.scid = "absent" \/ m.scid # "scfg.ID"
    THEN TRUE
    ELSE IF VerifyToken(m) # "nil" THEN FALSE ELSE FALSE

\* The AEAD contexts: nil, or what keyDerivation made of the n-th message.
NilAEAD == [forwardSecure |-> FALSE, chlo |-> 0]
keyDerivation(forwardSecure, n) == [forwardSecure |-> forwardSecure, chlo |-> n]

REJ == [tag |-> "REJ", tags |-> {"SCFG", "CERT", "PROF", "STK"}]
SHLO == [tag |-> "SHLO", tags |-> {"PUBS", "SNO", "VER"}]

----------------------------------------------------------------------------
NewCryptoSetup ==
    /\ secureAEAD = NilAEAD
    /\ forwardSecureAEAD = NilAEAD
    /\ receivedForwardSecurePacket = FALSE
    /\ receivedSecurePacket = FALSE
    /\ aeadChanged = 0
    /\ mutex = [w |-> FALSE, r |-> 0]
    /\ cryptoStream = <<>>
    /\ nread = 0
    /\ msg = NoMessage
    /\ hpc = "parse"
    /\ err = "running"
    /\ spc = "idle"
    /\ pkt = "none"
    /\ sres = [op |-> "none", val |-> "none"]
    /\ opened = "none"

\* HandleCryptoStream returns e.
Return(e) == hpc' = "returned" /\ err' = e

----------------------------------------------------------------------------
(* HandleCryptoStream *)

\* ParseHandshakeMessage and the tag check.
ParseHandshakeMessage ==
    /\ hpc = "parse"
    /\ nread < MaxMsgs
    /\ \E m \in Messages :
        /\ msg' = m
        /\ nread' = nread + 1
        /\ IF m.tag # "CHLO"
           THEN Return("InvalidCryptoMessageType")
           ELSE hpc' = "handleMessage" /\ err' = err
    /\ UNCHANGED <<untouched, secureAEAD, forwardSecureAEAD, aeadChanged, mutex,
                   cryptoStream, sessionVars>>

\* The crypto stream fails or is closed: ParseHandshakeMessage returns an error.
ParseError ==
    /\ hpc = "parse"
    /\ Return("parse-error")
    /\ UNCHANGED <<untouched, secureAEAD, forwardSecureAEAD, aeadChanged, mutex,
                   cryptoStream, nread, msg, sessionVars>>

\* A faulty variant: only an absent SNI is refused, an empty one is accepted.
handleMessage_EmptySNIAccepted ==
    /\ hpc = "handleMessage"
    /\ IF msg.sni = "absent"
       THEN Return("CryptoMessageParameterNotFound")
       ELSE /\ err' = err
            /\ hpc' = IF isInchoateCHLO(msg) THEN "handleInchoateCHLO"
                                             ELSE "handleCHLO"
    /\ UNCHANGED <<untouched, secureAEAD, forwardSecureAEAD, aeadChanged, mutex,
                   cryptoStream, nread, msg, sessionVars>>

\* handleMessage up to the choice between handleCHLO and handleInchoateCHLO.
handleMessage ==
    /\ hpc = "handleMessage"
    /\ IF msg.sni \in {"absent", "empty"}
       THEN Return("CryptoMessageParameterNotFound")
       ELSE /\ err' = err
            /\ hpc' = IF isInchoateCHLO(msg) THEN "handleInchoateCHLO"
                                             ELSE "handleCHLO"
    /\ UNCHANGED <<untouched, secureAEAD, forwardSecureAEAD, aeadChanged, mutex,
                   cryptoStream, nread, msg, sessionVars>>

\* handleInchoateCHLO: the size check, the proof, the certificates, the token.
handleInchoateCHLO ==
    /\ hpc = "handleInchoateCHLO"
    /\ IF msg.size < ClientHelloMinimumSize
       THEN Return("CryptoInvalidValueLength")
       ELSE \/ Return("signer-failure")     \* scfg.Sign or GetCertsCompressed
            \/ Return("stk-failure")        \* stkSource.NewToken
            \/ hpc' = "writeREJ" /\ err' = err
    /\ UNCHANGED <<untouched, secureAEAD, forwardSecureAEAD, aeadChanged, mutex,
                   cryptoStream, nread, msg, sessionVars>>

\* handleMessage writes the REJ and HandleCryptoStream loops.
WriteREJ ==
    /\ hpc = "writeREJ"
    /\ \/ /\ cryptoStream' = Append(cryptoStream, REJ)
          /\ hpc' = "parse" /\ err' = err
          /\ msg' = NoMessage
       \/ /\ Return("write-failure")
          /\ UNCHANGED <<cryptoStream, msg>>
    /\ UNCHANGED <<untouched, secureAEAD, forwardSecureAEAD, aeadChanged, mutex,
                   nread, sessionVars>>

----------------------------------------------------------------------------
(* handleCHLO, one step per statement that another goroutine can observe *)

\* The deferred h.mutex.Unlock().
Unlocked == [mutex EXCEPT !.w = FALSE]

\* handleCHLO returns an error e while holding the write lock.
ReturnLocked(e) == Return(e) /\ mutex' = Unlocked

\* scfg.kex.CalculateSharedKey(cryptoData[TagPUBS]), before the lock is taken.
CalculateSharedKey ==
    /\ hpc = "handleCHLO"
    /\ IF msg.pubs = "malformed"
       THEN Return("kex-failure")
       ELSE hpc' = "Lock" /\ err' = err
    /\ UNCHANGED <<untouched, secureAEAD, forwardSecureAEAD, aeadChanged, mutex,
                   cryptoStream, nread, msg, sessionVars>>

\* A faulty variant: handleCHLO installs the keys without taking the lock.
Lock_Missing ==
    /\ hpc = "Lock"
    /\ hpc' = "GetLeafCert"
    /\ UNCHANGED <<untouched, secureAEAD, forwardSecureAEAD, aeadChanged, mutex,
                   cryptoStream, nread, msg, err, sessionVars>>

\* h.mutex.Lock()
Lock ==
    /\ hpc = "Lock"
    /\ ~mutex.w /\ mutex.r = 0
    /\ mutex' = [mutex EXCEPT !.w = TRUE]
    /\ hpc' = "GetLeafCert"
    /\ UNCHANGED <<untouched, secureAEAD, forwardSecureAEAD, aeadChanged,
                   cryptoStream, nread, msg, err, sessionVars>>

\* scfg.signer.GetLeafCert(sni)
GetLeafCert ==
    /\ hpc = "GetLeafCert"
    /\ \/ ReturnLocked("signer-failure")
       \/ hpc' = "deriveSecure" /\ UNCHANGED <<err, mutex>>
    /\ UNCHANGED <<untouched, secureAEAD, forwardSecureAEAD, aeadChanged,
                   cryptoStream, nread, msg, sessionVars>>

\* h.secureAEAD, err = h.keyDerivation(version, false, ...)
DeriveSecure ==
    /\ hpc = "deriveSecure"
    /\ \/ /\ secureAEAD' = NilAEAD
          /\ ReturnLocked("kdf-failure")
       \/ /\ secureAEAD' = keyDerivation(FALSE, nread)
          /\ hpc' = "ephemeralKEX" /\ UNCHANGED <<err, mutex>>
    /\ UNCHANGED <<untouched, forwardSecureAEAD, aeadChanged, cryptoStream, nread,
                   msg, sessionVars>>

\* h.keyExchange() and ephermalKex.CalculateSharedKey(cryptoData[TagPUBS])
EphemeralKEX ==
    /\ hpc = "ephemeralKEX"
    /\ \/ ReturnLocked("kex-failure")
       \/ hpc' = "deriveForwardSecure" /\ UNCHANGED <<err, mutex>>
    /\ UNCHANGED <<untouched, secureAEAD, forwardSecureAEAD, aeadChanged,
                   cryptoStream, nread, msg, sessionVars>>

\* h.forwardSecureAEAD, err = h.keyDerivation(version, true, ...)
DeriveForwardSecure ==
    /\ hpc = "deriveForwardSecure"
    /\ \/ /\ forwardSecureAEAD' = NilAEAD
          /\ ReturnLocked("kdf-failure")
       \/ /\ forwardSecureAEAD' = keyDerivation(TRUE, nread)
          /\ hpc' = "SetFromMap" /\ UNCHANGED <<err, mutex>>
    /\ UNCHANGED <<untouched, secureAEAD, aeadChanged, cryptoStream, nread, msg,
                   sessionVars>>

\* connectionParametersManager.SetFromMap(cryptoData); the SHLO is then built.
SetFromMap ==
    /\ hpc = "SetFromMap"
    /\ \/ ReturnLocked("params-failure")
       \/ hpc' = "send" /\ UNCHANGED <<err, mutex>>
    /\ UNCHANGED <<untouched, secureAEAD, forwardSecureAEAD, aeadChanged,
                   cryptoStream, nread, msg, sessionVars>>

\* h.aeadChanged <- struct{}{} on the unbuffered channel: the send completes
\* when the session goroutine, waiting in its select, receives.
SendAeadChanged ==
    /\ hpc = "send"
    /\ spc = "idle"
    /\ aeadChanged' = aeadChanged + 1
    /\ hpc' = "return"
    /\ UNCHANGED <<untouched, secureAEAD, forwardSecureAEAD, mutex, cryptoStream,
                   nread, msg, err, sessionVars>>

\* handleCHLO returns the SHLO bytes; the deferred Unlock runs.
ReturnSHLO ==
    /\ hpc = "return"
    /\ mutex' = Unlocked
    /\ hpc' = "writeSHLO"
    /\ UNCHANGED <<untouched, secureAEAD, forwardSecureAEAD, aeadChanged,
                   cryptoStream, nread, msg, err, sessionVars>>

\* A faulty variant: handleMessage reports done = false after the SHLO, so
\* HandleCryptoStream reads on and a second CHLO is handled.
WriteSHLO_NotDone ==
    /\ hpc = "writeSHLO"
    /\ \/ /\ cryptoStream' = Append(cryptoStream, SHLO)
          /\ hpc' = "parse" /\ err' = err
       \/ /\ Return("write-failure")
          /\ cryptoStream' = cryptoStream
    /\ UNCHANGED <<untouched, secureAEAD, forwardSecureAEAD, aeadChanged, mutex,
                   nread, msg, sessionVars>>

\* handleMessage writes the SHLO and returns done; HandleCryptoStream returns nil.
WriteSHLO ==
    /\ hpc = "writeSHLO"
    /\ \/ /\ cryptoStream' = Append(cryptoStream, SHLO)
          /\ Return("nil")
       \/ /\ Return("write-failure")
          /\ cryptoStream' = cryptoStream
    /\ UNCHANGED <<untouched, secureAEAD, forwardSecureAEAD, aeadChanged, mutex,
                   nread, msg, sessionVars>>

----------------------------------------------------------------------------
(* The session goroutine: Open, Seal and DiversificationNonce, one call at a
   time, and the receive from aeadChanged when it is in none of them. *)

\* The three AEADs Open tries, highest first, as numbers.
Rank(t) == CASE t = "forwardSecureAEAD" -> 3
             [] t = "secureAEAD" -> 2
             [] t = "NullAEAD" -> 1
             [] OTHER -> 0

\* The SHLO has been written to the crypto stream.
SHLOWritten == \E i \in 1..Len(cryptoStream) : cryptoStream[i].tag = "SHLO"

\* The packets the peer can send, named by the key they are sealed under. The
\* forward-secure keys are derived from the ephemeral public value and the server
\* nonce, which reach the peer in the SHLO only.
PeerPackets ==
    {"garbage", "NullAEAD", "secureAEAD"}
        \cup (IF SHLOWritten THEN {"forwardSecureAEAD"} ELSE {})

\* aead.Open succeeds on the packets sealed under the same keys.
AEADOpen(tier, p) == p = tier

\* A faulty variant: a failure under an AEAD always falls through to the next one.
OpenNoLatch(fs, sec, rfs, rs, p) ==
    IF fs # NilAEAD /\ AEADOpen("forwardSecureAEAD", p)
    THEN [val |-> "forwardSecureAEAD", rfs |-> TRUE, rs |-> rs]
    ELSE IF sec # NilAEAD /\ AEADOpen("secureAEAD", p)
    THEN [val |-> "secureAEAD", rfs |-> rfs, rs |-> TRUE]
    ELSE IF AEADOpen("NullAEAD", p)
    THEN [val |-> "NullAEAD", rfs |-> rfs, rs |-> rs]
    ELSE [val |-> "error", rfs |-> rfs, rs |-> rs]

\* The body of Open: what it returns and the two flags after it.
OpenResult(fs, sec, rfs, rs, p) ==
    IF fs # NilAEAD /\ AEADOpen("forwardSecureAEAD", p)
    THEN [val |-> "forwardSecureAEAD", rfs |-> TRUE, rs |-> rs]
    ELSE IF fs # NilAEAD /\ rfs
    THEN [val |-> "error", rfs |-> rfs, rs |-> rs]
    ELSE IF sec # NilAEAD /\ AEADOpen("secureAEAD", p)
    THEN [val |-> "secureAEAD", rfs |-> rfs, rs |-> TRUE]
    ELSE IF sec # NilAEAD /\ rs
    THEN [val |-> "error", rfs |-> rfs, rs |-> rs]
    ELSE IF AEADOpen("NullAEAD", p)
    THEN [val |-> "NullAEAD", rfs |-> rfs, rs |-> rs]
    ELSE [val |-> "error", rfs |-> rfs, rs |-> rs]

\* A faulty variant: Seal uses the highest AEAD that is installed.
SealHighestInstalled(fs, sec, rfs) ==
    IF fs # NilAEAD THEN "forwardSecureAEAD"
    ELSE IF sec # NilAEAD THEN "secureAEAD"
    ELSE "NullAEAD"

\* The AEAD Seal uses.
SealAEAD(fs, sec, rfs) ==
    IF rfs THEN "forwardSecureAEAD"
    ELSE IF sec # NilAEAD THEN "secureAEAD"
    ELSE "NullAEAD"

\* The session calls Open on a packet of the peer.
CallOpen ==
    /\ spc = "idle"
    /\ \E p \in PeerPackets : pkt' = p
    /\ spc' = "Open.RLock"
    /\ UNCHANGED <<untouched, mutex, cryptoVars, receivedForwardSecurePacket,
                   receivedSecurePacket, sres, opened>>

\* The session calls Seal.
CallSeal ==
    /\ spc = "idle"
    /\ spc' = "Seal.RLock"
    /\ UNCHANGED <<untouched, mutex, cryptoVars, receivedForwardSecurePacket,
                   receivedSecurePacket, pkt, sres, opened>>

\* h.mutex.RLock() in Open and in Seal.
RLock ==
    /\ spc \in {"Open.RLock", "Seal.RLock"}
    /\ ~mutex.w
    /\ mutex' = [mutex EXCEPT !.r = @ + 1]
    /\ spc' = IF spc = "Open.RLock" THEN "Open" ELSE "Seal"
    /\ UNCHANGED <<untouched, cryptoVars, receivedForwardSecurePacket,
                   receivedSecurePacket, pkt, sres, opened>>

\* Open under the read lock, the deferred RUnlock and the return.
Open ==
    /\ spc = "Open"
    /\ LET res == OpenResult(forwardSecureAEAD, secureAEAD,
                             receivedForwardSecurePacket, receivedSecurePacket, pkt)
       IN /\ receivedForwardSecurePacket' = res.rfs
          /\ receivedSecurePacket' = res.rs
          /\ sres' = [op |-> "Open", val |-> res.val]
          /\ opened' = IF Rank(res.val) > Rank(opened) THEN res.val ELSE opened
    /\ mutex' = [mutex EXCEPT !.r = @ - 1]
    /\ spc' = "idle"
    /\ UNCHANGED <<untouched, cryptoVars, pkt>>

\* Seal under the read lock, the deferred RUnlock and the return.
Seal ==
    /\ spc = "Seal"
    /\ sres' = [op |-> "Seal",
                val |-> SealAEAD(forwardSecureAEAD, secureAEAD,
                                 receivedForwardSecurePacket)]
    /\ mutex' = [mutex EXCEPT !.r = @ - 1]
    /\ spc' = "idle"
    /\ UNCHANGED <<untouched, cryptoVars, receivedForwardSecurePacket,
                   receivedSecurePacket, pkt, opened>>

\* A faulty variant: the threshold version itself gets no nonce.
CallDiversificationNonce_AboveThresholdOnly ==
    /\ spc = "idle"
    /\ IF version <= DiversificationVersion
       THEN spc' = "idle" /\ sres' = [op |-> "DiversificationNonce", val |-> "nil"]
       ELSE spc' = "Nonce.received" /\ sres' = sres
    /\ UNCHANGED <<untouched, mutex, cryptoVars, receivedForwardSecurePacket,
                   receivedSecurePacket, pkt, opened>>

\* DiversificationNonce: the version check, which reads no shared field.
CallDiversificationNonce ==
    /\ spc = "idle"
    /\ IF version < DiversificationVersion
       THEN spc' = "idle" /\ sres' = [op |-> "DiversificationNonce", val |-> "nil"]
       ELSE spc' = "Nonce.received" /\ sres' = sres
    /\ UNCHANGED <<untouched, mutex, cryptoVars, receivedForwardSecurePacket,
                   receivedSecurePacket, pkt, opened>>

\* DiversificationNonce reads h.receivedForwardSecurePacket, holding no lock.
NonceReadReceived ==
    /\ spc = "Nonce.received"
    /\ IF receivedForwardSecurePacket
       THEN spc' = "idle" /\ sres' = [op |-> "DiversificationNonce", val |-> "nil"]
       ELSE spc' = "Nonce.secure" /\ sres' = sres
    /\ UNCHANGED <<untouched, mutex, cryptoVars, receivedForwardSecurePacket,
                   receivedSecurePacket, pkt, opened>>

\* DiversificationNonce reads h.secureAEAD, holding no lock, and returns.
NonceReadSecure ==
    /\ spc = "Nonce.secure"
    /\ sres' = [op |-> "DiversificationNonce",
                val |-> IF secureAEAD = NilAEAD THEN "nil"
                                                ELSE "diversificationNonce"]
    /\ spc' = "idle"
    /\ UNCHANGED <<untouched, mutex, cryptoVars, receivedForwardSecurePacket,
                   receivedSecurePacket, pkt, opened>>

----------------------------------------------------------------------------
\* The source of source-address tokens. NewToken seals the time of issue and
\* the normalised address of the client under the STK key; VerifyToken opens a
\* token and checks its age and its address.

STKExpiryTimeSec == 86400

\* Length of the authentication tag the STK AEAD appends to a sealed token.
TagSize == 16

\* The clock starts at StartTime and is advanced at most MaxTicks times.
StartTime == 1462060800
MaxTicks == 2

v4InV6Prefix == <<0, 0, 0, 0, 0, 0, 0, 0, 0, 0, 255, 255>>

\* Client addresses as a net.IP holds them, 4 or 16 bytes, each with the
\* address it denotes: 1.2.3.4 in both of its forms, 4.3.2.1 as net.ParseIP
\* returns it, an IPv6 address, and the IPv6 address ::102:304, whose last four
\* bytes are those of 1.2.3.4.
IPs ==
    { [addr |-> "1.2.3.4", bytes |-> <<1, 2, 3, 4>>],
      [addr |-> "1.2.3.4", bytes |-> v4InV6Prefix \o <<1, 2, 3, 4>>],
      [addr |-> "4.3.2.1", bytes |-> v4InV6Prefix \o <<4, 3, 2, 1>>],
      [addr |-> "2001:db8::ff00:42:8329",
       bytes |-> <<32, 1, 13, 184, 0, 0, 0, 0, 0, 0, 255, 0, 0, 66, 131, 41>>],
      [addr |-> "::102:304",
       bytes |-> <<0, 0, 0, 0, 0, 0, 0, 0, 0, 0, 0, 0, 1, 2, 3, 4>>] }

\* A faulty variant: the address is sealed and compared as it was given.
normalized_AsGiven(ip) == ip

\* ip.normalized(): an IPv4 address in its 16-byte IPv4-in-IPv6 form becomes
\* its 4-byte form; every other address stays as it is.
normalized(ip) ==
    IF Len(ip) = 16 /\ SubSeq(ip, 1, 12) = v4InV6Prefix
    THEN SubSeq(ip, 13, 16)
    ELSE ip

\* The n low bytes of x, least significant first.
RECURSIVE littleEndian(_, _)
littleEndian(x, n) ==
    IF n = 0 THEN <<>> ELSE <<x % 256>> \o littleEndian(x \div 256, n - 1)

\* The number whose bytes, least significant first, are b.
RECURSIVE fromLittleEndian(_)
fromLittleEndian(b) ==
    IF b = <<>> THEN 0 ELSE Head(b) + 256 * fromLittleEndian(Tail(b))

\* sourceAddressToken.serialize: the timestamp in 8 bytes, then the address.
serialize(timestamp, ip) == littleEndian(timestamp, 8) \o ip

\* parseToken, the inverse of serialize.
parseToken(data) ==
    [timestamp |-> fromLittleEndian(SubSeq(data, 1, 8)),
     ip |-> SubSeq(data, 9, Len(data))]

\* The AEAD of the source, symbolically: a sealed blob names the key it was
\* sealed under and is TagSize bytes longer than its plaintext. A byte string
\* that was never sealed has key "none".
STKKey == "stkSource.aead"
OtherKey == "another key"
sealToken(key, plaintext) == [key |-> key, data |-> plaintext]
bytesToken(b) == [key |-> "none", data |-> b]
NoToken == bytesToken(<<>>)
tokenLen(tok) ==
    IF tok.key = "none" THEN Len(tok.data) ELSE Len(tok.data) + TagSize

\* stkSource.NewToken(ip) at time t.
NewToken(ip, t) == sealToken(STKKey, serialize(t, normalized(ip)))

\* A faulty variant: the address in the token is not compared.
VerifyToken_AnyIP(ip, tok, t) ==
    IF tokenLen(tok) < TagSize THEN "empty-token"
    ELSE IF tok.key # STKKey THEN "decryption-failed"
    ELSE IF t - parseToken(tok.data).timestamp > STKExpiryTimeSec
         THEN "stk-expired"
    ELSE "success"

\* A faulty variant: the address is compared before the age.
VerifyToken_IPFirst(ip, tok, t) ==
    IF tokenLen(tok) < TagSize THEN "empty-token"
    ELSE IF tok.key # STKKey THEN "decryption-failed"
    ELSE IF parseToken(tok.data).ip # normalized(ip) THEN "invalid-ip"
    ELSE IF t - parseToken(tok.data).timestamp > STKExpiryTimeSec
         THEN "stk-expired"
    ELSE "success"

\* stkSource.VerifyToken(ip, tok) at time t.
stkSource_VerifyToken(ip, tok, t) ==
    IF tokenLen(tok) < TagSize THEN "empty-token"
    ELSE IF tok.key # STKKey THEN "decryption-failed"
    ELSE IF t - parseToken(tok.data).timestamp > STKExpiryTimeSec
         THEN "stk-expired"
    ELSE IF parseToken(tok.data).ip # normalized(ip) THEN "invalid-ip"
    ELSE "success"

\* Byte strings a client can present that NewToken did not return: nil,
\* "foobar", a string one byte shorter than the tag, a string as long as a
\* token, and a token for ip sealed under another key.
ForeignTokens(ip, t) ==
    { NoToken,
      bytesToken(<<102, 111, 111, 98, 97, 114>>),
      bytesToken([i \in 1..(TagSize - 1) |-> 7]),
      bytesToken([i \in 1..(TagSize + 12) |-> 7]) }
    \cup { sealToken(OtherKey, serialize(t, normalized(ip))) }

NoVerification ==
    [ip |-> <<>>, addr |-> "none", tok |-> NoToken, genuine |-> FALSE,
     for |-> "none", forBytes |-> <<>>, age |-> 0, res |-> "none"]

\* NewStkSource: no token has been issued or verified.
NewStkSource ==
    /\ now = StartTime
    /\ ticks = 0
    /\ token = NoToken
    /\ issued = [addr |-> "none", bytes |-> <<>>, at |-> 0]
    /\ stkResult = NoVerification

\* The source issues a token for ip; stkResult is about the token issued last.
CallNewToken(ip) ==
    /\ token' = NewToken(ip.bytes, now)
    /\ issued' = [addr |-> ip.addr, bytes |-> ip.bytes, at |-> now]
    /\ stkResult' = NoVerification
    /\ UNCHANGED <<cryptoSetupVars, serverVars, aeadVars, now, ticks>>

\* A client at ip presents tok, the token issued last or a foreign one.
CallVerifyToken(ip, tok) ==
    /\ stkResult' =
         [ip |-> ip.bytes, addr |-> ip.addr, tok |-> tok,
          genuine |-> (issued.addr # "none" /\ tok = token),
          for |-> issued.addr, forBytes |-> issued.bytes,
          age |-> now - issued.at,
          res |-> stkSource_VerifyToken(ip.bytes, tok, now)]
    /\ UNCHANGED <<cryptoSetupVars, serverVars, aeadVars, now, ticks, token, issued>>

\* Time passes: a second, a second less than the lifetime of a token, or the
\* lifetime of a token.
Tick(d) ==
    /\ ticks < MaxTicks
    /\ ticks' = ticks + 1
    /\ now' = now + d
    /\ UNCHANGED <<cryptoSetupVars, serverVars, aeadVars, token, issued, stkResult>>

NextSTK ==
    \/ \E ip \in IPs : CallNewToken(ip)
    \/ \E ip \in IPs : \E tok \in {token} \cup ForeignTokens(ip.bytes, now) :
         CallVerifyToken(ip, tok)
    \/ \E d \in {1, STKExpiryTimeSec - 1, STKExpiryTimeSec} : Tick(d)

----------------------------------------------------------------------------
\* The AEAD of a packet-protection tier, between two parties. A context holds
\* the key and IV it opens with (the other party's) and the key and IV it
\* seals with (its own). Symbolically, a sealed packet names the key, the nonce
\* and the associated data it was sealed with, and opens only with the same.

Parties == {"alice", "bob"}
Peer(p) == IF p = "alice" THEN "bob" ELSE "alice"

Keys == {"key1", "key2"}
IVs == {<<1, 2, 3, 4>>, <<5, 6, 7, 8>>}
PacketNumbers == {0, 42, 43}
AADs == {<<97, 97, 100>>, <<97, 97, 100, 50>>, <<97, 97, 101>>}
Plaintexts == {<<>>, <<102, 111, 111, 98, 97, 114>>}

\* A context is made from the other party's key and IV and one's own.
NewAEADChacha20Poly1305(otherKey, myKey, otherIV, myIV) ==
    [otherKey |-> otherKey, myKey |-> myKey, otherIV |-> otherIV, myIV |-> myIV]

\* The nonce of a packet: the IV, then the packet number in 8 bytes.
makeNonce(iv, packetNumber) == iv \o littleEndian(packetNumber, 8)

aeadSeal(ctx, packetNumber, associatedData, plaintext) ==
    [key |-> ctx.myKey, nonce |-> makeNonce(ctx.myIV, packetNumber),
     aad |-> associatedData, text |-> plaintext]

\* A faulty variant: the associated data is not authenticated.
aeadOpen_AnyAAD(ctx, packetNumber, associatedData, ciphertext) ==
    IF /\ ciphertext.key = ctx.otherKey
       /\ ciphertext.nonce = makeNonce(ctx.otherIV, packetNumber)
    THEN [err |-> "nil", text |-> ciphertext.text]
    ELSE [err |-> "decryption-failed", text |-> <<>>]

aeadOpen(ctx, packetNumber, associatedData, ciphertext) ==
    IF /\ ciphertext.key = ctx.otherKey
       /\ ciphertext.nonce = makeNonce(ctx.otherIV, packetNumber)
       /\ ciphertext.aad = associatedData
    THEN [err |-> "nil", text |-> ciphertext.text]
    ELSE [err |-> "decryption-failed", text |-> <<>>]

\* The contexts of two parties keyed symmetrically.
AEADPair(keyAlice, keyBob, ivAlice, ivBob) ==
    [alice |-> NewAEADChacha20Poly1305(keyBob, keyAlice, ivBob, ivAlice),
     bob |-> NewAEADChacha20Poly1305(keyAlice, keyBob, ivAlice, ivBob)]

NothingSealed ==
    [by |-> "nobody", packetNumber |-> 0, aad |-> <<>>, text |-> <<>>,
     ciphertext |-> [key |-> "none", nonce |-> <<>>, aad |-> <<>>, text |-> <<>>]]
NothingOpened ==
    [by |-> "nobody", packetNumber |-> 0, aad |-> <<>>,
     res |-> [err |-> "none", text |-> <<>>]]

\* Nothing has been sealed or opened.
NoPackets == sealedPkt = NothingSealed /\ openedPkt = NothingOpened

\* Party p seals a packet; openedPkt is about the packet sealed last.
PartySeals(p, packetNumber, associatedData, plaintext) ==
    /\ sealedPkt' =
         [by |-> p, packetNumber |-> packetNumber, aad |-> associatedData,
          text |-> plaintext,
          ciphertext |-> aeadSeal(contexts[p], packetNumber, associatedData, plaintext)]
    /\ openedPkt' = NothingOpened
    /\ UNCHANGED <<cryptoSetupVars, serverVars, stkVars, contexts>>

\* Party p opens the packet sealed last.
PartyOpens(p, packetNumber, associatedData) ==
    /\ sealedPkt.by # "nobody"
    /\ openedPkt' =
         [by |-> p, packetNumber |-> packetNumber, aad |-> associatedData,
          res |-> aeadOpen(contexts[p], packetNumber, associatedData,
                           sealedPkt.ciphertext)]
    /\ UNCHANGED <<cryptoSetupVars, serverVars, stkVars, contexts, sealedPkt>>

NextAEAD ==
    \/ \E p \in Parties, pn \in PacketNumbers, aad \in AADs, text \in Plaintexts :
         PartySeals(p, pn, aad, text)
    \/ \E p \in Parties, pn \in PacketNumbers, aad \in AADs :
         PartyOpens(p, pn, aad)

----------------------------------------------------------------------------
\* The Server. Each socket has a goroutine that reads packets and calls
\* handlePacket; every access to Server.sessions is made holding
\* sessionsMutex, so each locked section is one step.

Sockets == {1, 2}
ConnectionIDs == {1, 2}
PacketKinds == {"data", "invalid", "unsupported version"}

\* The packets read from the sockets are at most MaxPackets.
MaxPackets == 3

\* The nil packetHandler; the sessions are numbered from 1 as they are created.
NilSession == 0

\* map[protocol.ConnectionID]packetHandler: for each id, whether it has an
\* entry, and the entry.
NoEntry == [ok |-> FALSE, session |-> NilSession]
Entry(session) == [ok |-> TRUE, session |-> session]

Reading == [pc |-> "ReadFromUDP", id |-> 0, kind |-> "none", late |-> FALSE,
            session |-> NilSession]

\* NewServer, and ListenAndServe on each socket.
NewServer ==
    /\ sessions = [id \in ConnectionIDs |-> NoEntry]
    /\ listeners = [l \in Sockets |-> Reading]
    /\ created = <<>>
    /\ nPackets = 0
    /\ closedIds = {}
    /\ delivered = {}

At(l, pc) == listeners[l].pc = pc
Goto(l, pc) == listeners' = [listeners EXCEPT ![l].pc = pc]

\* handlePacket returns and ListenAndServe reads the next packet.
ReturnToRead(l) == listeners' = [listeners EXCEPT ![l] = Reading]

\* conn.ReadFromUDP returns a packet; it is late if closeCallback has already
\* been called with its connection id.
ReadFromUDP(l, id, kind) ==
    /\ At(l, "ReadFromUDP")
    /\ nPackets < MaxPackets
    /\ nPackets' = nPackets + 1
    /\ listeners' = [listeners EXCEPT ![l] =
         [pc |-> "handlePacket", id |-> id, kind |-> kind,
          late |-> (id \in closedIds), session |-> NilSession]]
    /\ UNCHANGED <<cryptoSetupVars, stkVars, aeadVars,
                   sessions, created, closedIds, delivered>>

\* The packet is too large or its public header does not parse.
RejectPacket(l) ==
    /\ At(l, "handlePacket")
    /\ listeners[l].kind = "invalid"
    /\ ReturnToRead(l)
    /\ UNCHANGED <<cryptoSetupVars, stkVars, aeadVars,
                   sessions, created, nPackets, closedIds, delivered>>

\* The client speaks an unsupported version: a version negotiation packet
\* is sent.
VersionNegotiation(l) ==
    /\ At(l, "handlePacket")
    /\ listeners[l].kind = "unsupported version"
    /\ ReturnToRead(l)
    /\ UNCHANGED <<cryptoSetupVars, stkVars, aeadVars,
                   sessions, created, nPackets, closedIds, delivered>>

\* session, ok := s.sessions[hdr.ConnectionID], under the read lock.
Lookup(l) ==
    /\ At(l, "handlePacket")
    /\ listeners[l].kind = "data"
    /\ listeners' = [listeners EXCEPT
         ![l].session = sessions[listeners[l].id].session,
         ![l].pc = IF sessions[listeners[l].id].ok THEN "deliver"
                   ELSE "newSession"]
    /\ UNCHANGED <<cryptoSetupVars, stkVars, aeadVars,
                   sessions, created, nPackets, closedIds, delivered>>

\* s.newSession returns a session.
CallNewSession(l) ==
    /\ At(l, "newSession")
    /\ created' = Append(created,
         [id |-> listeners[l].id, running |-> FALSE, closed |-> FALSE,
          late |-> listeners[l].late])
    /\ listeners' = [listeners EXCEPT ![l].session = Len(created) + 1,
                                      ![l].pc = "go"]
    /\ UNCHANGED <<cryptoSetupVars, stkVars, aeadVars,
                   sessions, nPackets, closedIds, delivered>>

\* s.newSession returns an error.
NewSessionFails(l) ==
    /\ At(l, "newSession")
    /\ ReturnToRead(l)
    /\ UNCHANGED <<cryptoSetupVars, stkVars, aeadVars,
                   sessions, created, nPackets, closedIds, delivered>>

\* go session.run()
GoRun(l) ==
    /\ At(l, "go")
    /\ created' = [created EXCEPT ![listeners[l].session].running = TRUE]
    /\ Goto(l, "store")
    /\ UNCHANGED <<cryptoSetupVars, stkVars, aeadVars,
                   sessions, nPackets, closedIds, delivered>>

\* s.sessions[hdr.ConnectionID] = session, under the write lock.
Store(l) ==
    /\ At(l, "store")
    /\ sessions' = [sessions EXCEPT
                      ![listeners[l].id] = Entry(listeners[l].session)]
    /\ Goto(l, "deliver")
    /\ UNCHANGED <<cryptoSetupVars, stkVars, aeadVars,
                   created, nPackets, closedIds, delivered>>

\* session == nil: a late packet for a closed session is dropped.
DropLatePacket(l) ==
    /\ At(l, "deliver")
    /\ listeners[l].session = NilSession
    /\ ReturnToRead(l)
    /\ UNCHANGED <<cryptoSetupVars, stkVars, aeadVars,
                   sessions, created, nPackets, closedIds, delivered>>

\* session.handlePacket(remoteAddr, hdr, data)
Deliver(l) ==
    /\ At(l, "deliver")
    /\ listeners[l].session # NilSession
    /\ delivered' = delivered \cup
         {[id |-> listeners[l].id, session |-> listeners[l].session,
           late |-> listeners[l].late]}
    /\ ReturnToRead(l)
    /\ UNCHANGED <<cryptoSetupVars, stkVars, aeadVars,
                   sessions, created, nPackets, closedIds>>

\* A running session closes and calls s.closeCallback with its id.
closeCallback(session) ==
    /\ session <= Len(created)
    /\ created[session].running
    /\ ~created[session].closed
    /\ created' = [created EXCEPT ![session].closed = TRUE]
    /\ sessions' = [sessions EXCEPT ![created[session].id] = Entry(NilSession)]
    /\ closedIds' = closedIds \cup {created[session].id}
    /\ UNCHANGED <<cryptoSetupVars, stkVars, aeadVars,
                   listeners, nPackets, delivered>>

NextServer ==
    \/ \E l \in Sockets, id \in ConnectionIDs, kind \in PacketKinds :
         ReadFromUDP(l, id, kind)
    \/ \E l \in Sockets : RejectPacket(l)
    \/ \E l \in Sockets : VersionNegotiation(l)
    \/ \E l \in Sockets : Lookup(l)
    \/ \E l \in Sockets : CallNewSession(l)
    \/ \E l \in Sockets : NewSessionFails(l)
    \/ \E l \in Sockets : GoRun(l)
    \/ \E l \in Sockets : Store(l)
    \/ \E l \in Sockets : DropLatePacket(l)
    \/ \E l \in Sockets : Deliver(l)
    \/ \E session \in 1..MaxPackets : closeCallback(session)

----------------------------------------------------------------------------
Init ==
    /\ version \in Versions
    /\ NewCryptoSetup
    /\ NewStkSource
    /\ contexts = AEADPair("key1", "key2", <<1, 2, 3, 4>>, <<5, 6, 7, 8>>)
    /\ NoPackets
    /\ NewServer

Next ==
    \/ ParseHandshakeMessage
    \/ ParseError
    \/ handleMessage
    \/ handleInchoateCHLO
    \/ WriteREJ
    \/ CalculateSharedKey
    \/ Lock
    \/ GetLeafCert
    \/ DeriveSecure
    \/ EphemeralKEX
    \/ DeriveForwardSecure
    \/ SetFromMap
    \/ SendAeadChanged
    \/ ReturnSHLO
    \/ WriteSHLO
    \/ CallOpen
    \/ CallSeal
    \/ RLock
    \/ Open
    \/ Seal
    \/ CallDiversificationNonce
    \/ NonceReadReceived
    \/ NonceReadSecure

Spec == Init /\ [][Next]_vars

\* The HandleCryptoStream goroutine keeps running once its send on aeadChanged
\* has been received: handleCHLO returns and the write of the SHLO returns.
SpecFair == Spec /\ WF_vars(ReturnSHLO) /\ WF_vars(WriteSHLO)

\* The token source on its own, beside a CryptoSetup that takes no step.
InitSTK ==
    /\ version = DiversificationVersion
    /\ NewCryptoSetup
    /\ NewStkSource
    /\ contexts = AEADPair("key1", "key2", <<1, 2, 3, 4>>, <<5, 6, 7, 8>>)
    /\ NoPackets
    /\ NewServer

SpecSTK == InitSTK /\ [][NextSTK]_vars

\* Two parties with contexts keyed symmetrically, with any keys and IVs, beside
\* a CryptoSetup and a token source that take no step.
InitAEAD ==
    /\ version = DiversificationVersion
    /\ NewCryptoSetup
    /\ NewStkSource
    /\ \E keyAlice \in Keys, keyBob \in Keys, ivAlice \in IVs, ivBob \in IVs :
         contexts = AEADPair(keyAlice, keyBob, ivAlice, ivBob)
    /\ NoPackets
    /\ NewServer

SpecAEAD == InitAEAD /\ [][NextAEAD]_vars

\* The Server, beside a CryptoSetup, a token source and two parties that take
\* no step.
InitServer == InitSTK

SpecServer == InitServer /\ [][NextServer]_vars

----------------------------------------------------------------------------
(* The shared fields each goroutine's next step touches. *)

\* The fields the next step of the HandleCryptoStream goroutine writes.
CryptoWrites ==
    CASE hpc = "deriveSecure" -> {"secureAEAD"}
      [] hpc = "deriveForwardSecure" -> {"forwardSecureAEAD"}
      [] OTHER -> {}

\* The fields the next step of the session goroutine reads.
SessionReads ==
    CASE spc = "Open" -> {"forwardSecureAEAD", "secureAEAD",
                          "receivedForwardSecurePacket", "receivedSecurePacket"}
      [] spc = "Seal" -> {"forwardSecureAEAD", "secureAEAD",
                          "receivedForwardSecurePacket"}
      [] spc = "Nonce.received" -> {"receivedForwardSecurePacket"}
      [] spc = "Nonce.secure" -> {"secureAEAD"}
      [] OTHER -> {}

\* The fields the next step of the session goroutine writes.
SessionWrites ==
    IF spc # "Open" THEN {}
    ELSE LET res == OpenResult(forwardSecureAEAD, secureAEAD,
                               receivedForwardSecurePacket, receivedSecurePacket, pkt)
         IN (IF res.val = "forwardSecureAEAD"
             THEN {"receivedForwardSecurePacket"} ELSE {})
            \cup (IF res.val = "secureAEAD" THEN {"receivedSecurePacket"} ELSE {})

----------------------------------------------------------------------------
(* The claims *)

\* The spec's full CHLO: the SCID matches and the STK verifies for the peer IP.
FullCHLO(m) == m.scid = "scfg.ID" /\ m.stk = "valid"

Installed(aead) == aead # NilAEAD

\* HandleCryptoStream is inside handleCHLO or writing its reply.
InHandleCHLO ==
    hpc \in {"handleCHLO", "Lock", "GetLeafCert", "deriveSecure", "ephemeralKEX",
             "deriveForwardSecure", "SetFromMap", "send", "return", "writeSHLO"}

\* handleCHLO has returned the SHLO.
HandledCHLO == aeadChanged > 0 /\ hpc \in {"writeSHLO", "returned"}

\* C1: when a full CHLO is handled, whenever the aead-changed signal has been
\* published the SHLO has already been written to the crypto stream.
C1_SHLOBeforeSignal == (FullCHLO(msg) /\ aeadChanged > 0) => SHLOWritten

\* C2: a CHLO whose SCID matches but whose STK is missing or does not verify is
\* treated as inchoate: the 0-RTT completion is not entered for it, no AEAD is
\* installed, nothing is published on aead-changed, no SHLO is written and
\* HandleCryptoStream does not return success on it.
C2_InvalidSTKIsInchoate ==
    (msg.tag = "CHLO" /\ msg.scid = "scfg.ID" /\ msg.stk # "valid") =>
        /\ ~InHandleCHLO
        /\ ~Installed(secureAEAD) /\ ~Installed(forwardSecureAEAD)
        /\ aeadChanged = 0
        /\ ~SHLOWritten
        /\ ~(hpc = "returned" /\ err = "nil")

\* C3: monotonic key tier. An Open that returns a success reports a tier that is
\* at least the highest tier any earlier Open has reported: after a success
\* under forwardSecureAEAD none under secureAEAD or NullAEAD, after a success
\* under secureAEAD none under NullAEAD.
C3_MonotonicKeyTier ==
    [][(spc = "Open" /\ spc' = "idle" /\ sres'.val # "error")
          => Rank(sres'.val) >= Rank(opened)]_vars

\* C3's case: after a success under forwardSecureAEAD, an Open of a packet that
\* NullAEAD would accept has returned an error.
C3_Witness ==
    /\ opened = "forwardSecureAEAD"
    /\ spc = "idle" /\ sres = [op |-> "Open", val |-> "error"]
    /\ pkt = "NullAEAD"

\* C4: whenever the write lock is not held, secureAEAD is installed if and only
\* if forwardSecureAEAD is installed (stated for the handling of full CHLOs, the
\* only ones the claim lets reach the CHLO handler).
C4_InstalledTogether ==
    (~mutex.w /\ (InHandleCHLO \/ hpc = "returned") /\ FullCHLO(msg)) =>
        (Installed(secureAEAD) <=> Installed(forwardSecureAEAD))

\* C5: Seal uses forwardSecureAEAD if receivedForwardSecurePacket, else
\* secureAEAD if it is installed, else NullAEAD; and once handleCHLO has
\* returned the SHLO, Seal uses forwardSecureAEAD if an Open has succeeded under
\* forwardSecureAEAD and secureAEAD otherwise, never NullAEAD.
C5_SealSelection ==
    [][(spc = "Seal" /\ spc' = "idle") =>
          /\ sres'.val = (IF receivedForwardSecurePacket THEN "forwardSecureAEAD"
                          ELSE IF Installed(secureAEAD) THEN "secureAEAD"
                          ELSE "NullAEAD")
          /\ HandledCHLO =>
                sres'.val = (IF opened = "forwardSecureAEAD"
                             THEN "forwardSecureAEAD" ELSE "secureAEAD")]_vars

\* C5's case: after the SHLO, and with forwardSecureAEAD installed but no packet
\* opened under it yet, a Seal has used secureAEAD.
C5_Witness ==
    /\ HandledCHLO /\ Installed(forwardSecureAEAD)
    /\ opened # "forwardSecureAEAD"
    /\ spc = "idle" /\ sres = [op |-> "Seal", val |-> "secureAEAD"]

\* A CHLO with a non-empty SNI, at least the minimum size and no SCID equal to
\* the server config's.
Rejectable(m) ==
    /\ m.tag = "CHLO" /\ m.sni = "example.com"
    /\ m.size >= ClientHelloMinimumSize
    /\ m.scid # "scfg.ID"

\* n messages tagged REJ, each with exactly the tags SCFG, CERT, PROF and STK.
Rejections(n) ==
    [i \in 1..n |-> [tag |-> "REJ", tags |-> {"SCFG", "CERT", "PROF", "STK"}]]

NoKeyNoSignal ==
    ~Installed(secureAEAD) /\ ~Installed(forwardSecureAEAD) /\ aeadChanged = 0

\* C6, as claimed: every such CHLO is answered by exactly one REJ and
\* HandleCryptoStream stays in its loop: while it is handled the stream holds one
\* REJ per earlier CHLO and HandleCryptoStream has not returned; once it is
\* handled the stream holds one REJ per CHLO read; no key, no signal.
C6_EveryInchoateCHLOGetsREJ ==
    /\ Rejectable(msg) =>
          /\ hpc \in {"handleMessage", "handleInchoateCHLO", "writeREJ"}
          /\ cryptoStream = Rejections(nread - 1)
          /\ NoKeyNoSignal
    /\ msg = NoMessage => cryptoStream = Rejections(nread) /\ NoKeyNoSignal

\* C6, amended: the same, unless the signer, the STK source or the write to the
\* crypto stream returns an error, in which case HandleCryptoStream returns
\* that error and no REJ is written for this CHLO.
C6_InchoateCHLOGetsREJOrError ==
    /\ Rejectable(msg) =>
          /\ \/ hpc \in {"handleMessage", "handleInchoateCHLO", "writeREJ"}
             \/ /\ hpc = "returned"
                /\ err \in {"signer-failure", "stk-failure", "write-failure"}
          /\ cryptoStream = Rejections(nread - 1)
          /\ NoKeyNoSignal
    /\ msg = NoMessage => cryptoStream = Rejections(nread) /\ NoKeyNoSignal

\* C6's case: two such CHLOs in a row have been answered by two REJs and
\* HandleCryptoStream is reading the next message.
C6_Witness ==
    /\ nread = 2 /\ msg = NoMessage /\ hpc = "parse"
    /\ Len(cryptoStream) = 2
    /\ \A i \in 1..2 : cryptoStream[i].tag = "REJ"

\* C7: HandleCryptoStream returns success only on a full CHLO (matching SCID and
\* valid STK), with both AEADs installed, after zero or more REJs followed by
\* exactly one SHLO.
C7_SuccessOnlyByFullCHLO ==
    (hpc = "returned" /\ err = "nil") =>
        /\ FullCHLO(msg)
        /\ Installed(secureAEAD) /\ Installed(forwardSecureAEAD)
        /\ cryptoStream = Append(Rejections(nread - 1), SHLO)

\* C8: in a run that has returned (here: on a full CHLO, or before any), aead-
\* changed was published at most once, exactly once if the run returned
\* success, and not at all if no SHLO reached the crypto stream.
C8_SignalOnlyWithSHLO ==
    (hpc = "returned" /\ (FullCHLO(msg) \/ msg = NoMessage)) =>
        /\ aeadChanged <= 1
        /\ err = "nil" => aeadChanged = 1
        /\ ~SHLOWritten => aeadChanged = 0

\* C9: a Seal that has returned a packet sealed under forwardSecureAEAD has
\* returned after the SHLO was written to the crypto stream.
C9_NoForwardSecureSealBeforeSHLO ==
    (sres.op = "Seal" /\ sres.val = "forwardSecureAEAD") => SHLOWritten

\* C9's case: a Seal has used forwardSecureAEAD.
C9_Witness ==
    /\ spc = "idle" /\ sres = [op |-> "Seal", val |-> "forwardSecureAEAD"]
    /\ receivedForwardSecurePacket

\* C10: no two goroutines are about to access the same shared field with at
\* least one of them writing it (stated for the handling of full CHLOs).
C10_NoDataRace ==
    FullCHLO(msg) => CryptoWrites \cap (SessionReads \cup SessionWrites) = {}

\* The spec's inchoate CHLO: a valid CHLO that is not full.
InchoateCHLO(m) == m.tag = "CHLO" /\ m.sni = "example.com" /\ ~FullCHLO(m)

\* C11: the minimum size is enforced on inchoate CHLOs and only on them: an
\* inchoate CHLO below ClientHelloMinimumSize ends HandleCryptoStream with
\* CryptoInvalidValueLength, no REJ written for it and no key installed; a run
\* that ends on a full CHLO below the minimum does not end with that error.
C11_MinimumSizeOnInchoateOnly ==
    /\ (InchoateCHLO(msg) /\ msg.size < ClientHelloMinimumSize) =>
          /\ \/ hpc \in {"handleMessage", "handleInchoateCHLO"}
             \/ hpc = "returned" /\ err = "CryptoInvalidValueLength"
          /\ cryptoStream = Rejections(nread - 1)
          /\ NoKeyNoSignal
    /\ (hpc = "returned" /\ msg.tag = "CHLO" /\ msg.sni = "example.com"
          /\ FullCHLO(msg) /\ msg.size < ClientHelloMinimumSize) =>
          err # "CryptoInvalidValueLength"

\* C12: a message whose tag is not CHLO ends HandleCryptoStream with
\* InvalidCryptoMessageType, and a CHLO whose SNI is absent or empty ends it
\* with CryptoMessageParameterNotFound before it is classified, whatever its
\* SCID and STK and however many REJs went before: nothing is written for it,
\* no AEAD is installed, aead-changed is not published, and once
\* HandleCryptoStream has returned it reads and writes nothing more.
C12_ValidationFailuresAreFatal ==
    [][/\ (msg'.tag \notin {"CHLO", "none"}) =>
             /\ hpc' = "returned" /\ err' = "InvalidCryptoMessageType"
             /\ cryptoStream' = Rejections(nread' - 1)
             /\ NoKeyNoSignal'
       /\ (msg'.tag = "CHLO" /\ msg'.sni \in {"absent", "empty"}) =>
             /\ \/ hpc' = "handleMessage"
                \/ hpc' = "returned" /\ err' = "CryptoMessageParameterNotFound"
             /\ cryptoStream' = Rejections(nread' - 1)
             /\ NoKeyNoSignal'
       /\ hpc = "returned" => UNCHANGED cryptoVars]_vars

\* C12's case: after one REJ, a CHLO with matching SCID and valid STK but an
\* empty SNI has ended HandleCryptoStream.
C12_Witness ==
    /\ hpc = "returned" /\ err = "CryptoMessageParameterNotFound"
    /\ msg.sni = "empty" /\ FullCHLO(msg)
    /\ nread = 2 /\ cryptoStream = Rejections(1)

\* A call of DiversificationNonce returns in this step.
NonceReturns ==
    /\ spc' = "idle"
    /\ \/ spc \in {"Nonce.received", "Nonce.secure"}
       \/ spc = "idle" /\ sres' # sres /\ sres'.op = "DiversificationNonce"

\* No key has been installed yet: HandleCryptoStream has not passed the first
\* key derivation of handleCHLO.
BeforeInstallation ==
    hpc \in {"parse", "handleMessage", "handleInchoateCHLO", "writeREJ",
             "handleCHLO", "Lock", "GetLeafCert", "deriveSecure"}

\* C13: DiversificationNonce returns the nonce if and only if version >= 33,
\* secureAEAD is installed and receivedForwardSecurePacket is false, and nil
\* otherwise; so it returns nil before the keys are installed, the (one) nonce
\* from the handled CHLO until an Open succeeds under forwardSecureAEAD, and
\* nil after that Open.
C13_DiversificationNonce ==
    [][NonceReturns =>
          /\ sres'.val \in {"nil", "diversificationNonce"}
          /\ sres'.val = "diversificationNonce" <=>
                /\ version >= 33
                /\ Installed(secureAEAD)
                /\ ~receivedForwardSecurePacket
          /\ BeforeInstallation => sres'.val = "nil"
          /\ opened = "forwardSecureAEAD" => sres'.val = "nil"
          /\ (version >= 33 /\ HandledCHLO /\ opened # "forwardSecureAEAD")
                => sres'.val = "diversificationNonce"]_vars

\* C13's case: at version 33, after the CHLO was handled and a packet opened
\* under secureAEAD but none under forwardSecureAEAD, the nonce was returned.
C13_Witness ==
    /\ version = 33 /\ HandledCHLO
    /\ opened = "secureAEAD"
    /\ spc = "idle"
    /\ sres = [op |-> "DiversificationNonce", val |-> "diversificationNonce"]

\* C18: the key-tier state only moves forward: a received flag that is set
\* stays set, and an installed AEAD is neither cleared nor replaced.
C18_KeyTierStateMovesForward ==
    [][/\ receivedForwardSecurePacket => receivedForwardSecurePacket'
       /\ receivedSecurePacket => receivedSecurePacket'
       /\ Installed(secureAEAD) => secureAEAD' = secureAEAD
       /\ Installed(forwardSecureAEAD) => forwardSecureAEAD' = forwardSecureAEAD]_vars

\* C18's case: both AEADs are installed, both flags are set, HandleCryptoStream
\* has returned, and a later Open has failed without changing any of them.
C18_Witness ==
    /\ Installed(secureAEAD) /\ Installed(forwardSecureAEAD)
    /\ receivedSecurePacket /\ receivedForwardSecurePacket
    /\ hpc = "returned"
    /\ spc = "idle" /\ sres = [op |-> "Open", val |-> "error"]

\* handleCHLO has installed secureAEAD and its send on aeadChanged has not
\* been received yet.
InstalledNotSignalled ==
    hpc \in {"ephemeralKEX", "deriveForwardSecure", "SetFromMap", "send"}

\* The session is blocked in the RLock of an Open or a Seal while handleCHLO,
\* holding the write lock, waits for the session to receive from aeadChanged.
SignalDeadlock == hpc = "send" /\ spc \in {"Open.RLock", "Seal.RLock"}

\* C19: handleCHLO sends on aeadChanged holding the write lock. From the
\* installation of the keys until the signal is received the write lock is held
\* and no Open or Seal is past its RLock; once the session has received the
\* signal HandleCryptoStream eventually returns; and if the session has called
\* Open or Seal before receiving, neither goroutine ever takes another step.
C19_SignalUnderWriteLock ==
    /\ [](InstalledNotSignalled => (mutex.w /\ spc \notin {"Open", "Seal"}))
    /\ [][~SignalDeadlock]_vars
    /\ (aeadChanged > 0) ~> (hpc = "returned")

\* C19's case: the deadlock. handleCHLO waits in its send with the write lock
\* held while the session waits in the RLock of Open.
C19_Witness == SignalDeadlock /\ mutex.w /\ spc = "Open.RLock"

\* C14: a token NewToken returned for an address is accepted by VerifyToken
\* for the same address, in either of its forms, at every time at which the
\* token is at most 86400 seconds old.
C14_STKRoundTrip ==
    (stkResult.genuine /\ stkResult.addr = stkResult.for /\ stkResult.age <= 86400)
        => stkResult.res = "success"

\* C14's case: a token issued for the 4-byte form of an IPv4 address is
\* accepted for its 16-byte form.
C14_Witness ==
    /\ stkResult.genuine /\ stkResult.res = "success"
    /\ Len(stkResult.forBytes) = 4 /\ Len(stkResult.ip) = 16

\* VerifyToken has been called with a byte string shorter than the AEAD tag.
ShortToken == stkResult.tok.key = "none" /\ Len(stkResult.tok.data) < 16

\* C15: an unexpired token presented from another address than the one it was
\* issued for fails with invalid-ip; nil and byte strings shorter than the tag
\* fail with empty-token; every other byte string not sealed under the key of
\* the source fails with decryption-failed; and success is reported only for a
\* token the source issued for the address it is presented from.
C15_STKBindingAndRejection ==
    stkResult.res # "none" =>
        /\ (stkResult.genuine /\ stkResult.addr # stkResult.for
              /\ stkResult.age <= 86400) => stkResult.res = "invalid-ip"
        /\ ShortToken => stkResult.res = "empty-token"
        /\ (~ShortToken /\ stkResult.tok.key # STKKey)
              => stkResult.res = "decryption-failed"
        /\ stkResult.res = "success"
              => (stkResult.genuine /\ stkResult.addr = stkResult.for)

\* C15's case: the token issued for 1.2.3.4 is presented from ::102:304, whose
\* last four bytes are the same, and fails with invalid-ip.
C15_Witness ==
    /\ stkResult.genuine /\ stkResult.res = "invalid-ip"
    /\ stkResult.for = "1.2.3.4" /\ stkResult.addr = "::102:304"

\* C16: VerifyToken fails with stk-expired exactly for the tokens of the source
\* that are more than 86400 seconds old, whatever address they are presented
\* from: a token aged 86400 seconds is accepted for its address, one aged 86401
\* seconds is not.
C16_STKExpiry ==
    stkResult.res # "none" =>
        /\ stkResult.res = "stk-expired"
              <=> (stkResult.genuine /\ stkResult.age > 86400)
        /\ (stkResult.genuine /\ stkResult.age = 86400
              /\ stkResult.addr = stkResult.for) => stkResult.res = "success"
        /\ (stkResult.genuine /\ stkResult.age = 86401)
              => stkResult.res = "stk-expired"

\* C16's case: a token aged 86401 seconds is presented from another address
\* and fails with stk-expired.
C16_Witness ==
    /\ stkResult.genuine /\ stkResult.age = 86401
    /\ stkResult.addr # stkResult.for /\ stkResult.res = "stk-expired"

OneSession(id) == Cardinality({i \in 1..Len(created) : created[i].id = id}) = 1

\* C20: once closeCallback has been called with an id, the map holds the nil
\* session for it, no packet read after that call is handed to a session, and
\* no such packet has a session created. Stated for the ids newSession has
\* been called for once.
C20_LatePacketsDropped ==
    \A id \in closedIds :
        OneSession(id) =>
            /\ sessions[id] = Entry(NilSession)
            /\ \A d \in delivered : d.id = id => ~d.late
            /\ \A i \in 1..Len(created) : created[i].id = id => ~created[i].late

\* The sessions newSession has returned for id.
SessionsOf(id) == {i \in 1..Len(created) : created[i].id = id}

\* C21: for every connection id newSession is called at most once, at most one
\* session's run() is started, and all packets of the id are handed to the
\* same session.
C21_OneSessionPerConnectionID ==
    \A id \in ConnectionIDs :
        /\ Cardinality(SessionsOf(id)) <= 1
        /\ Cardinality({i \in SessionsOf(id) : created[i].running}) <= 1
        /\ \A d1, d2 \in delivered :
             (d1.id = id /\ d2.id = id) => d1.session = d2.session

====
